---- MODULE Spec2Model ----
(***************************************************************************)
(* State model of the CloudDependencyExplorer component                    *)
(* (src/unnamed/part_000): the search/filter/hover selection state, the    *)
(* derived company lists and provider counts, and the entry ingestion      *)
(* handler handleAddCompany with its asynchronous detection call.          *)
(*                                                                         *)
(* JavaScript strings are TLA+ strings; TLC evaluates Len, SubSeq, Tail    *)
(* and \o on them, so the string functions below are computed character   *)
(* by character as the JavaScript built-ins compute them.                  *)
(***************************************************************************)
EXTENDS Integers, Sequences, FiniteSets, TLC

(***************************************************************************)
(* Bounds of the model.                                                    *)
(***************************************************************************)
\* most session-added companies (customCompanies grows without limit)
MaxCustom == 2
\* most detection calls in flight at once (the code sets no limit)
MaxCalls == 2
\* most pending 500 ms timers started by handleSearch (never cancelled)
MaxTimers == 1
\* largest catalog handed to the Big-3 percentage as a pure function
MaxCatalog == 5
\* most image requests followed for one grid cell (a cell whose error
\* handler keeps assigning src keeps requesting)
MaxRequests == 4

(***************************************************************************)
(* JavaScript values.                                                      *)
(***************************************************************************)
\* the null of useState<string | null>(null)
null == "<null>"

\* JavaScript truthiness of a string | null value, as in `!selectedProvider`
Truthy(v) == v # null /\ v # ""

\* a JavaScript number that is either NaN or an integer
NaN == [nan |-> TRUE, val |-> 0]

Num(n) == [nan |-> FALSE, val |-> n]

(***************************************************************************)
(* String built-ins.                                                       *)
(***************************************************************************)
\* String.prototype.charAt, 1-based: "" outside the string
CharAt(s, i) == IF i \in 1..Len(s) THEN SubSeq(s, i, i) ELSE ""

UpperLetters == "ABCDEFGHIJKLMNOPQRSTUVWXYZ"

LowerLetters == "abcdefghijklmnopqrstuvwxyz"

RECURSIVE IndexFrom(_, _, _)
\* the first position >= i at which pat occurs in s, 0 if none
IndexFrom(s, pat, i) ==
    IF i + Len(pat) - 1 > Len(s) THEN 0
    ELSE IF SubSeq(s, i, i + Len(pat) - 1) = pat THEN i
    ELSE IndexFrom(s, pat, i + 1)

\* String.prototype.indexOf: the first 1-based position of pat in s, 0 if none
IndexOf(s, pat) == IndexFrom(s, pat, 1)

\* String.prototype.includes
Includes(s, pat) == IndexOf(s, pat) # 0

\* String.prototype.startsWith
StartsWith(s, pat) == Len(s) >= Len(pat) /\ SubSeq(s, 1, Len(pat)) = pat

\* the lower-case letter of each upper-case letter, and the reverse
LowerOf == [c \in {CharAt(UpperLetters, i) : i \in 1..26} |->
                CharAt(LowerLetters, IndexOf(UpperLetters, c))]

UpperOf == [c \in {CharAt(LowerLetters, i) : i \in 1..26} |->
                CharAt(UpperLetters, IndexOf(LowerLetters, c))]

LowerChar(c) == IF c \in DOMAIN LowerOf THEN LowerOf[c] ELSE c

UpperChar(c) == IF c \in DOMAIN UpperOf THEN UpperOf[c] ELSE c

RECURSIVE asciiLower(_)
\* s with every upper-case letter replaced by its lower-case letter
asciiLower(s) == IF s = "" THEN "" ELSE LowerChar(CharAt(s, 1)) \o asciiLower(Tail(s))

IsSpace(c) == c = " "

RECURSIVE TrimStart(_)
TrimStart(s) == IF s # "" /\ IsSpace(CharAt(s, 1)) THEN TrimStart(Tail(s)) ELSE s

RECURSIVE TrimEnd(_)
TrimEnd(s) ==
    IF s # "" /\ IsSpace(CharAt(s, Len(s))) THEN TrimEnd(SubSeq(s, 1, Len(s) - 1)) ELSE s

\* String.prototype.trim
Trim(s) == TrimEnd(TrimStart(s))

\* String.prototype.replace with a string pattern: only the FIRST occurrence,
\* wherever it is
Replace(s, pat, rep) ==
    LET i == IndexOf(s, pat)
    IN  IF i = 0 THEN s
        ELSE SubSeq(s, 1, i - 1) \o rep \o SubSeq(s, i + Len(pat), Len(s))

\* s.split(sep)[0]: the text before the first sep, all of s if there is none
SplitFirst(s, sep) ==
    LET i == IndexOf(s, sep) IN IF i = 0 THEN s ELSE SubSeq(s, 1, i - 1)

RECURSIVE FirstOfFrom(_, _, _)
FirstOfFrom(s, stops, i) ==
    IF i > Len(s) \/ Includes(stops, CharAt(s, i)) THEN i ELSE FirstOfFrom(s, stops, i + 1)

\* the first position of s holding one of the characters of stops, Len(s)+1 if none
FirstOf(s, stops) == FirstOfFrom(s, stops, 1)

RECURSIVE LastIndexFrom(_, _, _)
LastIndexFrom(s, c, i) ==
    IF i = 0 \/ CharAt(s, i) = c THEN i ELSE LastIndexFrom(s, c, i - 1)

\* String.prototype.lastIndexOf for one character: its last position in s, 0 if none
LastIndexOf(s, c) == LastIndexFrom(s, c, Len(s))

RECURSIVE SkipSlashes(_)
SkipSlashes(s) == IF s # "" /\ CharAt(s, 1) = "/" THEN SkipSlashes(Tail(s)) ELSE s

IsDigits(s) == \A i \in 1..Len(s) : Includes("0123456789", CharAt(s, i))

\* new URL(href).hostname for an href that starts with http:// or https://
\* (WHATWG URL, special scheme): the authority runs to the first / ? or #,
\* userinfo up to the last @ and a :port are dropped, the host is lower-cased;
\* the constructor throws when the host is empty, holds a space, or the port
\* is not a number.  The result is [ok |-> FALSE] for a throw.
hostname(href) ==
    LET rest   == SkipSlashes(SubSeq(href, IndexOf(href, "://") + 3, Len(href)))
        auth   == SubSeq(rest, 1, FirstOf(rest, "/?#") - 1)
        hp     == SubSeq(auth, LastIndexOf(auth, "@") + 1, Len(auth))
        colon  == IndexOf(hp, ":")
        host   == IF colon = 0 THEN hp ELSE SubSeq(hp, 1, colon - 1)
        port   == IF colon = 0 THEN "" ELSE SubSeq(hp, colon + 1, Len(hp))
    IN  IF host = "" \/ Includes(host, " ") \/ ~IsDigits(port)
        THEN [ok |-> FALSE, host |-> ""]
        ELSE [ok |-> TRUE, host |-> asciiLower(host)]

(***************************************************************************)
(* Data model.  Company is the record type of ../lib/company-data.         *)
(***************************************************************************)
Company(n, s, d, p) == [name |-> n, symbol |-> s, domain |-> d, provider |-> p]

\* the static seed catalog `companies` of ../lib/company-data
defaultCompanies ==
    << Company("Netflix", "NFLX", "netflix.com", "AWS"),
       Company("LinkedIn", "MSFT", "linkedin.com", "Azure"),
       Company("Slack", "WORK", "slack.com", "AWS") >>

\* the providers the external detector answers with ({provider: Provider})
DetectedProviders == {"Other", "Azure"}

\* texts typed into the search field (e.target.value of onChange)
SearchInputs == {"", "NET", "netflix.com", "https://www.stripe.com", "http://a b.io"}

detectionFailedMessage == "Failed to detect cloud provider. Please try again."

alreadyExistsMessage == "Company already exists"

VARIABLES
    searchQuery,        \* useState("")            line 15
    selectedProvider,   \* useState(null)          line 16
    customCompanies,    \* useState([])            line 17
    newCompanyUrl,      \* useState("")            line 18
    isDetecting,        \* useState(false)         line 19
    detectionError,     \* useState(null)          line 20
    hoveredProvider,    \* useState(null)          line 112
    calls,              \* detection calls awaiting their response (line 78)
    timers,             \* pending setTimeout callbacks of handleSearch (line 163)
    addOutcome,         \* how the handleAddCompany invocation of the last step ended
    probe               \* argument and result of a function applied on its own

vars == << searchQuery, selectedProvider, customCompanies, newCompanyUrl, isDetecting,
           detectionError, hoveredProvider, calls, timers, addOutcome, probe >>

(***************************************************************************)
(* Entry ingestion: the pure parts of handleAddCompany.                    *)
(***************************************************************************)
\* lines 64-68: the domain handleAddCompany derives from the draft;
\* [ok |-> FALSE] when new URL(...) throws
domainOf(draft) ==
    LET trimmed == Trim(draft)
        isUrl   == StartsWith(trimmed, "http://") \/ StartsWith(trimmed, "https://")
        parsed  == hostname(trimmed)
    IN  IF isUrl /\ ~parsed.ok THEN [ok |-> FALSE, domain |-> ""]
        ELSE [ok |-> TRUE,
              domain |-> Replace(IF isUrl THEN parsed.host ELSE trimmed, "www.", "")]

\* alreadyExists looking at the seed catalog only
alreadyExistsInSeed(all, domain) ==
    \E i \in 1..Len(defaultCompanies) : defaultCompanies[i].domain = domain

\* the drafts of the model are normalized once and looked up afterwards
Normalized == [text \in SearchInputs |-> domainOf(text)]

normalizeDomain(draft) ==
    IF draft \in DOMAIN Normalized THEN Normalized[draft] ELSE domainOf(draft)

\* line 71: allCompanies.some((c) => c.domain === domain)
alreadyExists(all, domain) == \E i \in 1..Len(all) : all[i].domain = domain

\* formattedName without the upper-casing of the first character
formattedNameAsTyped(domain) == SplitFirst(domain, ".")

\* lines 91-92: domain.split(".")[0], first character upper-cased
formattedName(domain) ==
    LET name == SplitFirst(domain, ".")
    IN  UpperChar(CharAt(name, 1)) \o SubSeq(name, 2, Len(name))

\* lines 95-100
newCompany(domain, provider) == Company(formattedName(domain), "CUSTOM", domain, provider)

(***************************************************************************)
(* String.prototype.toLowerCase.  The names and search texts of the model  *)
(* are lower-cased once and looked up afterwards; any other string is      *)
(* lower-cased letter by letter.                                           *)
(***************************************************************************)
KnownStrings ==
    SearchInputs
    \cup {defaultCompanies[i].name : i \in 1..Len(defaultCompanies)}
    \cup {formattedName(normalizeDomain(text).domain) : text \in SearchInputs}

LowerCased == [s \in KnownStrings |-> asciiLower(s)]

toLowerCase(s) == IF s \in DOMAIN LowerCased THEN LowerCased[s] ELSE asciiLower(s)

(***************************************************************************)
(* Derived (memoized) values, recomputed from the state on every render.   *)
(***************************************************************************)
\* [...defaultCompanies, ...customCompanies]
allCompaniesOf(custom) == defaultCompanies \o custom

allCompanies == allCompaniesOf(customCompanies)

\* matchesSearch without line 42's lower-casing of the name
matchesSearchCaseSensitive(company, loweredQuery) == Includes(company.name, loweredQuery)

\* line 42: company.name.toLowerCase().includes(searchQuery.toLowerCase())
matchesSearch(company, loweredQuery) == Includes(toLowerCase(company.name), loweredQuery)

\* line 43
matchesProvider(company, selected) == ~Truthy(selected) \/ company.provider = selected

\* Array.prototype.filter is SelectSeq: the elements that pass, in order.
\* Line 42 lower-cases the query once per company; the value is the same.
filteredCompaniesOf(all, query, selected) ==
    LET lowered == toLowerCase(query)
        keep(company) == matchesSearch(company, lowered) /\ matchesProvider(company, selected)
    IN  SelectSeq(all, keep)

filteredCompanies == filteredCompaniesOf(allCompanies, searchQuery, selectedProvider)

\* displayedCompaniesOf with the hover applied inside the filtered list
displayedCompaniesWithinFiltered(hovered, filtered, all) ==
    IF Truthy(hovered)
    THEN LET keep(c) == c.provider = hovered IN SelectSeq(filtered, keep)
    ELSE filtered

displayedCompaniesOf(hovered, filtered, all) ==
    IF Truthy(hovered)
    THEN LET keep(c) == c.provider = hovered IN SelectSeq(all, keep)
    ELSE filtered

displayedCompanies == displayedCompaniesOf(hoveredProvider, filteredCompanies, allCompanies)

RECURSIVE providerCountsOf(_)
\* counts[company.provider] = (counts[company.provider] || 0) + 1, one pass;
\* the result is a function whose domain is the set of providers that occur
providerCountsOf(all) ==
    IF all = << >> THEN << >>
    ELSE LET counts == providerCountsOf(SubSeq(all, 1, Len(all) - 1))
             p      == all[Len(all)].provider
             old    == IF p \in DOMAIN counts THEN counts[p] ELSE 0
         IN  [q \in (DOMAIN counts) \cup {p} |-> IF q = p THEN old + 1 ELSE counts[q]]

providerCounts == providerCountsOf(allCompanies)

\* providerCounts[p] || 0
CountOr0(counts, p) == IF p \in DOMAIN counts THEN counts[p] ELSE 0

\* Math.round(x) for x = 100 * n / d with d > 0: the nearest integer, halves up.
\* The code evaluates n / d * 100 in double precision; 100 * n / d is an exact
\* half only when 8 divides d, so for the catalog sizes of this model the
\* rounding error of the product cannot move it across a half.
RoundPercent(n, d) == (200 * n + d) \div (2 * d)

\* Math.round((AWS || 0) + (Azure || 0) + (GCP || 0)) / allCompanies.length * 100)
\* 0 / 0 is NaN in JavaScript and Math.round(NaN) is NaN
big3Percent(all) ==
    LET counts == providerCountsOf(all)
        big3   == CountOr0(counts, "AWS") + CountOr0(counts, "Azure") + CountOr0(counts, "GCP")
    IN  IF Len(all) = 0 THEN NaN ELSE Num(RoundPercent(big3, Len(all)))

(***************************************************************************)
(* Initial state: the useState initial values, nothing in flight.          *)
(***************************************************************************)
NoProbe == [fn |-> "none"]

Init ==
    /\ searchQuery = ""
    /\ selectedProvider = null
    /\ customCompanies = << >>
    /\ newCompanyUrl = ""
    /\ isDetecting = FALSE
    /\ detectionError = null
    /\ hoveredProvider = null
    /\ calls = << >>
    /\ timers = << >>
    /\ addOutcome = "none"
    /\ probe = NoProbe

RemoveAt(seq, i) == SubSeq(seq, 1, i - 1) \o SubSeq(seq, i + 1, Len(seq))

(***************************************************************************)
(* Search field.                                                           *)
(***************************************************************************)
\* line 161: the typed value looks like a URL or domain and matches no name
looksLikeUrl(value) ==
    /\ Includes(value, ".")
    /\ Len(value) > 3
    /\ LET lowered == toLowerCase(value)
       IN  ~\E i \in 1..Len(allCompanies) :
                Includes(toLowerCase(allCompanies[i].name), lowered)

\* onChange of the search field: handleSearch(e.target.value).  The cleanup
\* function it returns is dropped by the caller, so a started timer always fires.
handleSearch(value) ==
    /\ value # searchQuery
    /\ searchQuery' = value
    /\ IF looksLikeUrl(value)
       THEN Len(timers) < MaxTimers /\ timers' = Append(timers, value)
       ELSE timers' = timers
    /\ addOutcome' = "none"
    /\ UNCHANGED << selectedProvider, customCompanies, newCompanyUrl, isDetecting,
                    detectionError, hoveredProvider, calls, probe >>

\* the setTimeout callback of handleSearch: setNewCompanyUrl(value).  All
\* timers have the same delay, so they fire in the order they were started.
timerFires ==
    /\ timers # << >>
    /\ newCompanyUrl' = Head(timers)
    /\ timers' = Tail(timers)
    /\ addOutcome' = "none"
    /\ UNCHANGED << searchQuery, selectedProvider, customCompanies, isDetecting,
                    detectionError, hoveredProvider, calls, probe >>

\* the clear button of the search field, rendered while searchQuery is truthy
clearSearch ==
    /\ Truthy(searchQuery)
    /\ searchQuery' = ""
    /\ selectedProvider' = null
    /\ addOutcome' = "none"
    /\ UNCHANGED << customCompanies, newCompanyUrl, isDetecting, detectionError,
                    hoveredProvider, calls, timers, probe >>

(***************************************************************************)
(* Entry ingestion.                                                        *)
(***************************************************************************)
\* handleAddCompany without the early return of line 57
handleAddCompanyWithoutEmptyCheck ==
    LET n == normalizeDomain(newCompanyUrl)
    IN  IF ~n.ok
        THEN /\ addOutcome' = "threw"
             /\ detectionError' = detectionFailedMessage
             /\ isDetecting' = FALSE
             /\ UNCHANGED calls
        ELSE IF \E i \in 1..Len(allCompanies) : allCompanies[i].domain = n.domain
        THEN /\ addOutcome' = "duplicate"
             /\ detectionError' = alreadyExistsMessage
             /\ isDetecting' = FALSE
             /\ UNCHANGED calls
        ELSE /\ Len(calls) < MaxCalls
             /\ addOutcome' = "issued"
             /\ isDetecting' = TRUE
             /\ detectionError' = null
             /\ calls' = Append(calls, [draft  |-> newCompanyUrl,
                                        url    |-> Trim(newCompanyUrl),
                                        domain |-> n.domain])

\* handleAddCompany up to its first await (or its return), run inside one
\* event handler: it reads newCompanyUrl and allCompanies of the current
\* render, and its state updates are applied together when the handler ends.
\* It never calls setNewCompanyUrl before the await.
handleAddCompany ==
    LET n == normalizeDomain(newCompanyUrl)
    IN  IF Trim(newCompanyUrl) = ""
        THEN \* line 57: return
             /\ addOutcome' = "empty"
             /\ UNCHANGED << isDetecting, detectionError, calls >>
        ELSE IF ~n.ok
        THEN \* new URL throws: catch (line 106), finally (line 108)
             /\ addOutcome' = "threw"
             /\ detectionError' = detectionFailedMessage
             /\ isDetecting' = FALSE
             /\ UNCHANGED calls
        ELSE IF alreadyExists(allCompanies, n.domain)
        THEN \* lines 71-75, then finally
             /\ addOutcome' = "duplicate"
             /\ detectionError' = alreadyExistsMessage
             /\ isDetecting' = FALSE
             /\ UNCHANGED calls
        ELSE \* lines 59-60 and the fetch of line 78; the handler is suspended
             /\ Len(calls) < MaxCalls
             /\ addOutcome' = "issued"
             /\ isDetecting' = TRUE
             /\ detectionError' = null
             /\ calls' = Append(calls, [draft  |-> newCompanyUrl,
                                        url    |-> Trim(newCompanyUrl),
                                        domain |-> n.domain])

\* onKeyDown of the search field with e.key === "Enter" (lines 250-255)
onKeyDown ==
    /\ Includes(searchQuery, ".")
    /\ newCompanyUrl' = searchQuery
    /\ UNCHANGED << searchQuery, selectedProvider, customCompanies, hoveredProvider,
                    timers, probe >>
    /\ handleAddCompany

\* the detection call calls[i] answers ok with {provider}: lines 88-103, finally
detectionSucceeds(i, provider) ==
    /\ i \in 1..Len(calls)
    /\ Len(customCompanies) < MaxCustom
    /\ newCompanyUrl' = ""
    /\ isDetecting' = FALSE
    /\ calls' = RemoveAt(calls, i)
    /\ addOutcome' = "added"
    /\ customCompanies' = Append(customCompanies, newCompany(calls[i].domain, provider))
    /\ UNCHANGED << searchQuery, selectedProvider, detectionError, hoveredProvider,
                    timers, probe >>

\* detectionFails that also empties the draft, as the success path does
detectionFailsClearsDraft(i) ==
    /\ i \in 1..Len(calls)
    /\ detectionError' = detectionFailedMessage
    /\ isDetecting' = FALSE
    /\ newCompanyUrl' = ""
    /\ calls' = RemoveAt(calls, i)
    /\ addOutcome' = "failed"
    /\ UNCHANGED << searchQuery, selectedProvider, customCompanies, hoveredProvider,
                    timers, probe >>

\* detectionFails without the finally block of line 108
detectionFailsKeepsLoading(i) ==
    /\ i \in 1..Len(calls)
    /\ detectionError' = detectionFailedMessage
    /\ calls' = RemoveAt(calls, i)
    /\ addOutcome' = "failed"
    /\ UNCHANGED << searchQuery, selectedProvider, customCompanies, newCompanyUrl,
                    isDetecting, hoveredProvider, timers, probe >>

\* the detection call calls[i] answers with a non-success status (lines 84-86)
\* or the fetch rejects: catch (lines 104-106), finally (line 108)
detectionFails(i) ==
    /\ i \in 1..Len(calls)
    /\ detectionError' = detectionFailedMessage
    /\ isDetecting' = FALSE
    /\ calls' = RemoveAt(calls, i)
    /\ addOutcome' = "failed"
    /\ UNCHANGED << searchQuery, selectedProvider, customCompanies, newCompanyUrl,
                    hoveredProvider, timers, probe >>

(***************************************************************************)
(* Provider pills, pie segments and the Clear Filter button.               *)
(***************************************************************************)
\* the providers that have a pill and a pie segment
shownProviders == DOMAIN providerCounts

\* onClick of a pill (line 299) or of a pie cell (line 360)
toggleProvider(provider) ==
    /\ selectedProvider' = IF selectedProvider = provider THEN null ELSE provider
    /\ addOutcome' = "none"
    /\ UNCHANGED << searchQuery, customCompanies, newCompanyUrl, isDetecting,
                    detectionError, hoveredProvider, calls, timers, probe >>

\* onMouseEnter of a pill (line 300) or of a pie segment (line 353)
onMouseEnter(provider) ==
    /\ hoveredProvider' = provider
    /\ addOutcome' = "none"
    /\ UNCHANGED << searchQuery, selectedProvider, customCompanies, newCompanyUrl,
                    isDetecting, detectionError, calls, timers, probe >>

\* onMouseLeave of a pill (line 301) or of the pie (line 354)
onMouseLeave ==
    /\ hoveredProvider # null
    /\ hoveredProvider' = null
    /\ addOutcome' = "none"
    /\ UNCHANGED << searchQuery, selectedProvider, customCompanies, newCompanyUrl,
                    isDetecting, detectionError, calls, timers, probe >>

\* the Clear Filter button, rendered while a provider is selected or hovered
clearFilter ==
    /\ Truthy(selectedProvider) \/ Truthy(hoveredProvider)
    /\ selectedProvider' = null
    /\ hoveredProvider' = null
    /\ addOutcome' = "none"
    /\ UNCHANGED << searchQuery, customCompanies, newCompanyUrl, isDetecting,
                    detectionError, calls, timers, probe >>

Next ==
    \/ \E value \in SearchInputs : handleSearch(value)
    \/ timerFires
    \/ clearSearch
    \/ onKeyDown
    \/ \E i \in 1..MaxCalls, provider \in DetectedProviders : detectionSucceeds(i, provider)
    \/ \E i \in 1..MaxCalls : detectionFails(i)
    \/ \E provider \in shownProviders : toggleProvider(provider)
    \/ \E provider \in shownProviders : onMouseEnter(provider)
    \/ onMouseLeave
    \/ clearFilter

Spec == Init /\ [][Next]_vars

\* every issued detection call is eventually answered (the assumption under
\* which the ingestion always returns to Idle)
Resolve ==
    \E i \in 1..MaxCalls :
        \/ detectionFails(i)
        \/ \E provider \in DetectedProviders : detectionSucceeds(i, provider)

LiveSpec == Init /\ [][Next]_vars /\ WF_vars(Resolve)

(***************************************************************************)
(* The Big-3 percentage as a function of the catalog (lines 383-385),      *)
(* applied to every catalog of at most MaxCatalog entries.                 *)
(***************************************************************************)
CatalogProviders == {"AWS", "Azure", "GCP", "Other"}

\* the catalog whose i-th entry has provider ps[i]
CatalogOf(ps) == [i \in 1..Len(ps) |-> Company("Co", "CO", "co.example", ps[i])]

Catalogs == {CatalogOf(ps) : ps \in UNION {[1..k -> CatalogProviders] : k \in 0..MaxCatalog}}

Applied == "out" \in DOMAIN probe

InitBig3 ==
    /\ searchQuery = ""
    /\ selectedProvider = null
    /\ customCompanies = << >>
    /\ newCompanyUrl = ""
    /\ isDetecting = FALSE
    /\ detectionError = null
    /\ hoveredProvider = null
    /\ calls = << >>
    /\ timers = << >>
    /\ addOutcome = "none"
    /\ probe \in {[fn |-> "big3Percent", arg |-> all] : all \in Catalogs}

renderBig3 ==
    /\ probe.fn = "big3Percent"
    /\ ~Applied
    /\ probe' = [fn |-> probe.fn, arg |-> probe.arg, out |-> big3Percent(probe.arg)]
    /\ UNCHANGED << searchQuery, selectedProvider, customCompanies, newCompanyUrl,
                    isDetecting, detectionError, hoveredProvider, calls, timers,
                    addOutcome >>

SpecBig3 == InitBig3 /\ [][renderBig3]_vars

(***************************************************************************)
(* The domain normalization of handleAddCompany (lines 64-68) as a         *)
(* function of the submitted text.                                         *)
(***************************************************************************)
Blanks == {"", " "}

Schemes == {"", "http://", "https://"}

Labels == {"", "www.", "awww.", "api.www."}

Hosts == {"stripe.com", "Stripe.COM", "x.io"}

Tails == {"", ":8080", "/www.html"}

Submitted == {b1 \o s \o l \o h \o t \o b2 :
                 b1 \in Blanks, s \in Schemes, l \in Labels, h \in Hosts, t \in Tails,
                 b2 \in Blanks}

InitNormalize ==
    /\ searchQuery = ""
    /\ selectedProvider = null
    /\ customCompanies = << >>
    /\ newCompanyUrl = ""
    /\ isDetecting = FALSE
    /\ detectionError = null
    /\ hoveredProvider = null
    /\ calls = << >>
    /\ timers = << >>
    /\ addOutcome = "none"
    /\ probe \in {[fn |-> "normalizeDomain", arg |-> text] : text \in Submitted}

applyNormalize ==
    /\ probe.fn = "normalizeDomain"
    /\ ~Applied
    /\ probe' = [fn |-> probe.fn, arg |-> probe.arg, out |-> normalizeDomain(probe.arg)]
    /\ UNCHANGED << searchQuery, selectedProvider, customCompanies, newCompanyUrl,
                    isDetecting, detectionError, hoveredProvider, calls, timers,
                    addOutcome >>

SpecNormalize == InitNormalize /\ [][applyNormalize]_vars

(***************************************************************************)
(* The logo image of one grid cell (lines 422-434).  The img element       *)
(* starts with the clearbit URL of the company; every load failure runs    *)
(* the onError handler, which picks the next src by looking at the         *)
(* current one.  Assigning src starts a new request, also when the value   *)
(* assigned equals the current one.  The URLs are absolute and need no     *)
(* resolution, so target.src reads back what was assigned.                 *)
(***************************************************************************)
\* the escapes of the printable ASCII characters that are not letters,
\* digits or one of - _ . ! ~ * ' ( ), but for
\* the double quote (%22), the backslash (%5C) and the backquote (%60)
Escapes ==
    [c \in {" ", "#", "$", "%", "&", "+", ",", "/", ":", ";", "<", "=", ">",
            "?", "@", "[", "]", "^", "{", "|", "}"} |->
        CASE c = " "  -> "%20" [] c = "#" -> "%23"
          [] c = "$"  -> "%24" [] c = "%"  -> "%25" [] c = "&" -> "%26"
          [] c = "+"  -> "%2B" [] c = ","  -> "%2C" [] c = "/" -> "%2F"
          [] c = ":"  -> "%3A" [] c = ";"  -> "%3B" [] c = "<" -> "%3C"
          [] c = "="  -> "%3D" [] c = ">"  -> "%3E" [] c = "?" -> "%3F"
          [] c = "@"  -> "%40" [] c = "["  -> "%5B"
          [] c = "]"  -> "%5D" [] c = "^"  -> "%5E"
          [] c = "{"  -> "%7B" [] c = "|"  -> "%7C" [] c = "}" -> "%7D"]

RECURSIVE encodeURIComponent(_)
\* a character outside printable ASCII would become the escapes of its
\* UTF-8 bytes; no name of this model has one, nor one of those three
encodeURIComponent(s) ==
    IF s = "" THEN ""
    ELSE LET c == CharAt(s, 1)
         IN  (IF c \in DOMAIN Escapes THEN Escapes[c] ELSE c)
                 \o encodeURIComponent(Tail(s))

\* line 423
clearbitSrc(company) == "https://logo.clearbit.com/" \o company.domain

\* line 429
faviconSrc(company) ==
    "https://www.google.com/s2/favicons?domain=" \o company.domain \o "&sz=128"

\* line 431
avatarSrc(company) ==
    "https://ui-avatars.com/api/?name=" \o encodeURIComponent(company.name)
        \o "&background=random&size=128"

\* lines 428-432: the src the handler assigns, or null when neither branch
\* is taken
nextSrc(src, company) ==
    IF Includes(src, "clearbit") THEN faviconSrc(company)
    ELSE IF Includes(src, "google.com") THEN avatarSrc(company)
    ELSE null

CellDomains == {"stripe.com", "google.com", "clearbit.com", "x.io"}

CellNames == {"Stripe", "Google", "Clearbit", "AT&T", "J P", "my google.com"}

CellCompanies == {Company(n, "CO", d, "AWS") : n \in CellNames, d \in CellDomains}

\* the img element as rendered: its first request is out, nothing failed yet
ImageOf(company) ==
    [fn |-> "image", company |-> company, src |-> clearbitSrc(company),
     requests |-> << clearbitSrc(company) >>, failures |-> 0, status |-> "loading"]

InitImage ==
    /\ searchQuery = ""
    /\ selectedProvider = null
    /\ customCompanies = << >>
    /\ newCompanyUrl = ""
    /\ isDetecting = FALSE
    /\ detectionError = null
    /\ hoveredProvider = null
    /\ calls = << >>
    /\ timers = << >>
    /\ addOutcome = "none"
    /\ probe \in {ImageOf(company) : company \in CellCompanies}

\* the pending request succeeds: the image is shown, no handler runs
onLoad ==
    /\ probe.fn = "image"
    /\ probe.status = "loading"
    /\ probe' = [probe EXCEPT !.status = "loaded"]
    /\ UNCHANGED << searchQuery, selectedProvider, customCompanies, newCompanyUrl,
                    isDetecting, detectionError, hoveredProvider, calls, timers,
                    addOutcome >>

\* lines 426-433: the pending request fails
onError ==
    /\ probe.fn = "image"
    /\ probe.status = "loading"
    /\ LET next == nextSrc(probe.src, probe.company)
       IN  IF next = null
           THEN probe' = [probe EXCEPT !.failures = @ + 1, !.status = "broken"]
           ELSE /\ Len(probe.requests) < MaxRequests
                /\ probe' = [probe EXCEPT !.failures = @ + 1,
                                          !.src = next,
                                          !.requests = Append(@, next)]
    /\ UNCHANGED << searchQuery, selectedProvider, customCompanies, newCompanyUrl,
                    isDetecting, detectionError, hoveredProvider, calls, timers,
                    addOutcome >>

NextImage == onLoad \/ onError

SpecImage == InitImage /\ [][NextImage]_vars

(***************************************************************************)
(* Helpers of the properties, stated without the operators of the model.   *)
(***************************************************************************)
RECURSIVE Picked(_, _)
\* the elements of seq whose positions are in the set at, in the order of seq
Picked(seq, at) ==
    IF seq = << >> THEN << >>
    ELSE LET front == Picked(SubSeq(seq, 1, Len(seq) - 1), at)
         IN  IF Len(seq) \in at THEN Append(front, seq[Len(seq)]) ELSE front

\* some entry of the catalog has this domain
InCatalog(all, d) == d \in {all[i].domain : i \in 1..Len(all)}

\* text occurs in name when upper and lower case of a letter count as the same
ContainsIgnoringCase(name, text) ==
    \E start \in 1..(Len(name) - Len(text) + 1) :
        \A k \in 1..Len(text) :
            LowerChar(CharAt(name, start + k - 1)) = LowerChar(CharAt(text, k))

\* the text submitted with the draft, surrounding blanks removed
Submission(draft) == Trim(draft)

\* C1: no two entries of the catalog (seed ++ customCompanies) have the same
\* domain, in every state reachable by any interleaving of handleAddCompany
\* invocations and detection-call resolutions.
C1_DomainsUnique ==
    \A i, j \in 1..Len(allCompanies) :
        i # j => allCompanies[i].domain # allCompanies[j].domain

(***************************************************************************)
(* C2                                                                      *)
(***************************************************************************)
\* the step is an invocation of handleAddCompany whose draft is not blank and
\* whose normalization did not throw
InvokedWithDomain ==
    onKeyDown /\ Submission(newCompanyUrl) # "" /\ normalizeDomain(newCompanyUrl).ok

\* C2: when handleAddCompany is invoked with a draft whose normalized domain
\* is the domain of an entry already in the catalog (seed or session-added),
\* detectionError becomes "Company already exists", the catalog is unchanged,
\* the loading flag ends false and no detection call is issued.
C2_DuplicateRejected ==
    [][ (InvokedWithDomain
            /\ InCatalog(allCompanies, normalizeDomain(newCompanyUrl).domain))
        => /\ detectionError' = "Company already exists"
           /\ allCompanies' = allCompanies
           /\ isDetecting' = FALSE
           /\ calls' = calls ]_vars

\* a duplicate was just rejected: the message is shown and nothing is in flight
C2_Witness ==
    /\ addOutcome = "duplicate"
    /\ detectionError = "Company already exists"
    /\ calls = << >>

(***************************************************************************)
(* C3                                                                      *)
(***************************************************************************)
\* the text of d before its first ".", all of d when it has none
FirstLabel(d) ==
    CHOOSE l \in {SubSeq(d, 1, k) : k \in 0..Len(d)} :
        /\ \A k \in 1..Len(l) : CharAt(l, k) # "."
        /\ Len(l) = Len(d) \/ CharAt(d, Len(l) + 1) = "."

Capitalized(l) == IF l = "" THEN "" ELSE UpperChar(CharAt(l, 1)) \o SubSeq(l, 2, Len(l))

EntryFor(d, p) ==
    [name |-> Capitalized(FirstLabel(d)), symbol |-> "CUSTOM", domain |-> d, provider |-> p]

\* C3: an invocation whose normalized domain d is not in the catalog issues
\* exactly one detection call (only such a step adds a call, and the answer
\* adds none); when the call succeeds with provider p exactly one entry
\* {first label of d capitalized, "CUSTOM", d, p} is appended at the end of
\* the catalog, the draft is emptied and the earlier entries stay as they were.
C3_OneCallOneEntry ==
    [][ /\ (InvokedWithDomain
               /\ ~InCatalog(allCompanies, normalizeDomain(newCompanyUrl).domain))
           => calls' = Append(calls, [draft  |-> newCompanyUrl,
                                      url    |-> Submission(newCompanyUrl),
                                      domain |-> normalizeDomain(newCompanyUrl).domain])
        /\ Len(calls') > Len(calls) => onKeyDown /\ Len(calls') = Len(calls) + 1
        /\ \A i \in 1..Len(calls), p \in DetectedProviders :
              detectionSucceeds(i, p)
              => /\ customCompanies' = Append(customCompanies, EntryFor(calls[i].domain, p))
                 /\ allCompanies' = Append(allCompanies, EntryFor(calls[i].domain, p))
                 /\ newCompanyUrl' = ""
                 /\ Len(calls') = Len(calls) - 1
                 /\ (calls[i].url = "https://www.stripe.com" /\ p = "Other")
                    => allCompanies'[Len(allCompanies')] =
                         [name |-> "Stripe", symbol |-> "CUSTOM",
                          domain |-> "stripe.com", provider |-> "Other"] ]_vars

\* "https://www.stripe.com" was submitted and detected as Other
C3_Witness ==
    /\ addOutcome = "added"
    /\ newCompanyUrl = ""
    /\ customCompanies = << [name |-> "Stripe", symbol |-> "CUSTOM",
                             domain |-> "stripe.com", provider |-> "Other"] >>

(***************************************************************************)
(* C4                                                                      *)
(***************************************************************************)
\* C4 as stated: when the detection call of an invocation returns a
\* non-success response, detectionError becomes the generic message, the
\* loading flag is cleared, the catalog is unchanged, and the draft keeps the
\* value it had when the invocation started.
C4_DraftAsAtStart ==
    [][ \A i \in 1..Len(calls) :
            detectionFails(i)
            => /\ detectionError' = "Failed to detect cloud provider. Please try again."
               /\ isDetecting' = FALSE
               /\ allCompanies' = allCompanies
               /\ newCompanyUrl' = calls[i].draft ]_vars

\* C4 as amended: ... and the draft is left as it was just before the
\* response was handled (the failure path does not write it).
C4_FailureKeepsDraft ==
    [][ \A i \in 1..Len(calls) :
            detectionFails(i)
            => /\ detectionError' = "Failed to detect cloud provider. Please try again."
               /\ isDetecting' = FALSE
               /\ allCompanies' = allCompanies
               /\ newCompanyUrl' = newCompanyUrl ]_vars

\* a detection just failed and the draft is still there for a retry
C4_Witness ==
    /\ addOutcome = "failed"
    /\ detectionError = "Failed to detect cloud provider. Please try again."
    /\ ~isDetecting
    /\ newCompanyUrl # ""

(***************************************************************************)
(* C5                                                                      *)
(***************************************************************************)
\* C5: when handleAddCompany is invoked while the trimmed draft is empty, no
\* detection call is issued and the invocation leaves the catalog, the draft
\* and the loading flag unchanged.  The invocation runs inside the key
\* handler, after its setNewCompanyUrl(searchQuery) of line 252: the draft the
\* invocation leaves unchanged is the one that call queued.
C5_EmptyDraftIgnored ==
    [][ (onKeyDown /\ Submission(newCompanyUrl) = "")
        => /\ calls' = calls
           /\ allCompanies' = allCompanies
           /\ isDetecting' = isDetecting
           /\ detectionError' = detectionError
           /\ newCompanyUrl' = searchQuery ]_vars

\* an invocation with an empty draft just returned
C5_Witness ==
    /\ addOutcome = "empty"
    /\ calls = << >>
    /\ ~isDetecting

(***************************************************************************)
(* C6                                                                      *)
(***************************************************************************)
\* C6: whenever an invocation has ended (empty input, duplicate, exception
\* during normalization, failed detection, successful detection) the loading
\* flag is false; and, every issued call being answered eventually, every
\* state with isDetecting true is followed by one with isDetecting false.
C6_ReturnsToIdle ==
    /\ [](addOutcome \in {"empty", "duplicate", "threw", "failed", "added"} => ~isDetecting)
    /\ (isDetecting ~> ~isDetecting)

\* one of two overlapping invocations has ended while the other still awaits
\* its answer
C6_Witness ==
    /\ addOutcome \in {"failed", "added"}
    /\ calls # << >>
    /\ ~isDetecting

(***************************************************************************)
(* C7                                                                      *)
(***************************************************************************)
C7_Displayed ==
    /\ hoveredProvider = null => displayedCompanies = filteredCompanies
    /\ hoveredProvider # null =>
          displayedCompanies =
              Picked(allCompanies,
                     {i \in 1..Len(allCompanies) : allCompanies[i].provider = hoveredProvider})

\* C7: displayedCompanies is filteredCompanies when hoveredProvider is unset
\* and all catalog entries of the hovered provider when it is set, whatever
\* searchQuery and selectedProvider are; pointer-enter and pointer-leave leave
\* selectedProvider and searchQuery unchanged.
C7_HoverPrecedence ==
    /\ []C7_Displayed
    /\ [][ ((\E p \in shownProviders : onMouseEnter(p)) \/ onMouseLeave)
           => selectedProvider' = selectedProvider /\ searchQuery' = searchQuery ]_vars

\* Azure is hovered while the sticky filter is AWS and the query is "NET"
C7_Witness ==
    /\ hoveredProvider = "Azure"
    /\ selectedProvider = "AWS"
    /\ searchQuery = "NET"
    /\ Len(displayedCompanies) = 2
    /\ Len(filteredCompanies) = 1

(***************************************************************************)
(* C8                                                                      *)
(***************************************************************************)
\* C8: filteredCompanies holds exactly the catalog entries whose name contains
\* the query case-insensitively and, when a sticky filter is set, whose
\* provider is that filter, in catalog order; the empty query matches all.
C8_FilterSoundComplete ==
    /\ filteredCompanies =
          Picked(allCompanies,
                 {i \in 1..Len(allCompanies) :
                     /\ ContainsIgnoringCase(allCompanies[i].name, searchQuery)
                     /\ selectedProvider = null \/ allCompanies[i].provider = selectedProvider})
    /\ (searchQuery = "" /\ selectedProvider = null) => filteredCompanies = allCompanies

\* the query "NET" with the sticky filter AWS leaves Netflix alone
C8_Witness ==
    /\ searchQuery = "NET"
    /\ selectedProvider = "AWS"
    /\ Len(customCompanies) = 2
    /\ filteredCompanies = << [name |-> "Netflix", symbol |-> "NFLX",
                               domain |-> "netflix.com", provider |-> "AWS"] >>

(***************************************************************************)
(* C9                                                                      *)
(***************************************************************************)
Big3Count(all) ==
    Cardinality({i \in 1..Len(all) : all[i].provider \in {"AWS", "Azure", "GCP"}})

\* the integer nearest to 100 * k / n (n > 0), halves rounded up
NearestPercent(k, n) ==
    CHOOSE r \in 0..100 : 2 * n * r - n <= 200 * k /\ 200 * k < 2 * n * r + n

\* C9: the displayed Big-3 percentage is round(100 * (AWS + Azure + GCP) /
\* catalog size) for every non-empty catalog, and is 0, never NaN, for the
\* empty catalog.
C9_Big3Percentage ==
    (probe.fn = "big3Percent" /\ Applied) =>
        /\ ~probe.out.nan
        /\ probe.out.val = IF Len(probe.arg) = 0 THEN 0
                           ELSE NearestPercent(Big3Count(probe.arg), Len(probe.arg))

(***************************************************************************)
(* C10                                                                     *)
(***************************************************************************)
\* the host of a submitted text: the URL host when the trimmed text starts
\* with http:// or https://, otherwise the trimmed text itself
HostOf(text) ==
    LET t == Trim(text)
    IN  IF StartsWith(t, "http://") \/ StartsWith(t, "https://") THEN hostname(t).host ELSE t

\* the host with "www." removed only when the host starts with it
WithoutLeadingWww(host) ==
    IF StartsWith(host, "www.") THEN SubSeq(host, 5, Len(host)) ELSE host

\* C10: the normalized domain is the host with the literal "www." removed
\* only when it is a leading prefix of the host; a host that does not start
\* with "www." is left unchanged, even when "www." occurs later inside it.
C10_LeadingWwwOnly ==
    (probe.fn = "normalizeDomain" /\ Applied /\ probe.out.ok) =>
        probe.out.domain = WithoutLeadingWww(HostOf(probe.arg))

(***************************************************************************)
(* C11                                                                     *)
(***************************************************************************)
\* the three sources of a company, in the order of the chain
SourceChain(company) ==
    << "https://logo.clearbit.com/" \o company.domain,
       "https://www.google.com/s2/favicons?domain=" \o company.domain \o "&sz=128",
       "https://ui-avatars.com/api/?name=" \o encodeURIComponent(company.name)
           \o "&background=random&size=128" >>

\* C11: for every company, the requests made for its image are the sources
\* logo, favicon by domain, avatar by name in that order, one more source
\* per load failure, none skipped or requested twice, and none after the
\* avatar has failed; so there are at most three requests.
C11_FallbackChain ==
    probe.fn = "image" =>
        /\ Len(probe.requests) <= 3
        /\ probe.requests = SubSeq(SourceChain(probe.company), 1, Len(probe.requests))
        /\ Len(probe.requests) = (IF probe.failures < 3 THEN probe.failures + 1 ELSE 3)
        /\ probe.status = "broken" => probe.failures = 3

\* the same statement for the companies whose domain and name contain
\* neither "clearbit" nor "google.com"
C11_PlainEntries ==
    (/\ probe.fn = "image"
     /\ ~Includes(probe.company.domain, "clearbit")
     /\ ~Includes(probe.company.domain, "google.com")
     /\ ~Includes(encodeURIComponent(probe.company.name), "clearbit")
     /\ ~Includes(encodeURIComponent(probe.company.name), "google.com")) =>
        /\ Len(probe.requests) <= 3
        /\ probe.requests = SubSeq(SourceChain(probe.company), 1, Len(probe.requests))
        /\ Len(probe.requests) = (IF probe.failures < 3 THEN probe.failures + 1 ELSE 3)
        /\ probe.status = "broken" => probe.failures = 3

C11_PlainWitness ==
    /\ probe.fn = "image"
    /\ probe.company.domain = "stripe.com"
    /\ probe.company.name = "AT&T"
    /\ probe.status = "broken"

(***************************************************************************)
(* C12                                                                     *)
(***************************************************************************)
\* C12: in every reachable state, also when several invocations of
\* handleAddCompany overlap, isDetecting is true while at least one
\* detection call has been issued and has not yet been answered.
C12_LoadingWhileInFlight == calls # << >> => isDetecting

\* the flag of a call in flight stays up over every step that is neither
\* an invocation of handleAddCompany nor the handling of an answer
C12_OtherStepsKeepLoading ==
    [][(addOutcome' = "none" /\ calls # << >> /\ isDetecting) => isDetecting']_vars

(***************************************************************************)
(* C13                                                                     *)
(***************************************************************************)
\* what an ingestion attempt that processes text does to the calls and the
\* error message: nothing for an empty text, the failure message for a
\* text that cannot be parsed, the duplicate message for a domain of the
\* catalog, and otherwise one call that carries the text
AttemptProcesses(text) ==
    LET n == normalizeDomain(text)
    IN  IF Submission(text) = ""
        THEN UNCHANGED << calls, detectionError >>
        ELSE IF ~n.ok
        THEN calls' = calls /\ detectionError' = detectionFailedMessage
        ELSE IF InCatalog(allCompanies, n.domain)
        THEN calls' = calls /\ detectionError' = alreadyExistsMessage
        ELSE /\ Len(calls') = Len(calls) + 1
             /\ SubSeq(calls', 1, Len(calls)) = calls
             /\ calls'[Len(calls')].url = Submission(text)
             /\ calls'[Len(calls')].domain = n.domain

\* C13: when Enter is pressed while searchQuery contains a ".", the attempt
\* started by the key press processes the text searchQuery has at that
\* moment, whatever the draft newCompanyUrl held before and whether or not
\* the timer of handleSearch has fired.
C13_EnterProcessesSearchQuery ==
    [][onKeyDown => AttemptProcesses(searchQuery)]_vars

\* the same statement for the key presses at which the draft already
\* equals searchQuery
C13_EnterWithDraftInSync ==
    [][(newCompanyUrl = searchQuery /\ onKeyDown) => AttemptProcesses(searchQuery)]_vars

====
